---- MODULE Spec2Model ----
(***************************************************************************)
(* Quiz (QCM) backend: publish / invite / attempt / answer / finish        *)
(* lifecycle of src/app.py over the relational store of src/db.py.         *)
(*                                                                         *)
(* Conventions                                                             *)
(*  - A nullable column is a set with no element (NULL) or one element.    *)
(*  - Row ids (uuid4 in the code) are the row's position in its table:     *)
(*    a fresh id is the next free position.  An id of 0 in a request       *)
(*    stands for a missing or empty field.                                 *)
(*  - Timestamps are UTC instants in seconds, and the store returns a      *)
(*    timestamp with the UTC offset it was written with, so that           *)
(*    expires_at.replace(tzinfo=None) is the UTC wall clock that           *)
(*    datetime.utcnow() is compared with.  A request that reads the clock  *)
(*    reads it once, at an instant not before the previous reading.        *)
(*  - A share token is <<nonce, qcm_id>>: secrets.token_urlsafe(24)        *)
(*    followed by "_" and the quiz id.  Nonce 0 is the random part of the  *)
(*    token minted before the service started; it is not drawn again.      *)
(*  - A text (question text, explanation) is a number; 0 is the empty      *)
(*    string.                                                              *)
(*  - Columns that no handler branches on and no response of the model     *)
(*    carries (candidate_email, language, skill, seed, option text) are    *)
(*    left out of the rows.                                                *)
(***************************************************************************)
EXTENDS Integers, Sequences, FiniteSets, Bags, TLC

VARIABLES
    qcms,       \* table qcms:      qcm id      -> [status, share_token]
    questions,  \* table questions: question id -> [qcm_id, text, explanation]
    options,    \* table options:   option id   -> [question_id, is_correct]
    invites,    \* table invites:   sequence of [qcm_id, token, expires_at, max_uses, used_count]
    attempts,   \* table attempts:  sequence of [qcm_id, invite_id, started_at, finished_at, score, duration_s]
    answers,    \* table answers:   bag of [attempt_id, question_id, option_id, correct]
    now,        \* the clock reading of the latest request
    resp,       \* the latest HTTP response: [op, code, body]
    procs,      \* requests in flight, each in a session of its own: request -> [pc, token, inv_id, inv, at, code, arg, seen]
    llm         \* the model output handed to an extraction function exercised on its own

vars == <<qcms, questions, options, invites, attempts, answers, now, resp, procs, llm>>

store == <<qcms, questions, options, invites, attempts, answers>>

(***************************************************************************)
(* Bounds of the model                                                     *)
(***************************************************************************)
MaxQcmId == 3        \* quiz ids a request may name (the store holds 1 and 2)
MaxAttempts == 2     \* attempts the store may hold
MaxUses == 2         \* largest max_uses of an invite found in the store
MaxTicks == 1        \* the clock takes the values k * (InviteTtl + 1), k <= MaxTicks
NumNonces == 1       \* values of secrets.token_urlsafe(24)
NumProcs == 2        \* simultaneous requests

(***************************************************************************)
(* Program constants                                                       *)
(***************************************************************************)
InviteTtl == 2592000        \* timedelta(days=30), in seconds

QcmIds == 1..MaxQcmId
Nonces == 1..NumNonces
Tokens == (0..NumNonces) \X QcmIds
NoToken == <<0, 0>>
Times == {k * (InviteTtl + 1) : k \in 0..MaxTicks}
Procs == 1..NumProcs

(***************************************************************************)
(* The rows the store holds when the service starts.  The database         *)
(* outlives the process and is shared with other writers, so the invite    *)
(* found for quiz 2 has any cap from 0 (unlimited) to MaxUses and any      *)
(* expiry; quiz 1 is a draft with NumQuestions questions, quiz 2 is        *)
(* published and has no question.                                          *)
(***************************************************************************)
NumQuestions == 2     \* questions of quiz 1
NumOptions == 2       \* options of each question
QuestionIds == 1..NumQuestions
OptionIds == 1..(NumQuestions * NumOptions)

InitQcms ==
    [q \in 1..2 |->
        IF q = 1 THEN [status |-> "draft", share_token |-> {}]
                 ELSE [status |-> "published", share_token |-> {<<0, 2>>}]]

InitQuestions == [q \in QuestionIds |-> [qcm_id |-> 1, text |-> 1, explanation |-> 1]]

InitOptions ==
    [o \in OptionIds |->
        LET q == ((o - 1) \div NumOptions) + 1
            k == (o - 1) % NumOptions
        IN  [question_id |-> q, is_correct |-> (k = (q - 1) % NumOptions)]]

NoResp == [op |-> "none", code |-> 0, body |-> <<>>]

IdleProc ==
    [pc |-> "idle", token |-> NoToken, inv_id |-> 0, inv |-> {}, at |-> {}, code |-> 0,
     arg |-> <<>>, seen |-> <<>>]

NoLlm == [status |-> "none", questions |-> <<>>, text |-> <<>>]

Init ==
    /\ qcms = InitQcms
    /\ questions = InitQuestions
    /\ options = InitOptions
    /\ \E m \in 0..MaxUses, e \in {{}, {0}} :
          invites = << [qcm_id |-> 2, token |-> <<0, 2>>, expires_at |-> e,
                        max_uses |-> m, used_count |-> 0] >>
    /\ attempts = <<>>
    /\ answers = EmptyBag
    /\ now = 0
    /\ resp = NoResp
    /\ procs = [p \in Procs |-> IdleProc]
    /\ llm = NoLlm

(***************************************************************************)
(* Helpers shared by the handlers                                          *)
(***************************************************************************)
\* datetime.now(timezone.utc) / datetime.utcnow(): the request's clock reading
Clock(t) == t \in Times /\ t >= now /\ now' = t

\* jsonify(...), status
Reply(op, code, body) ==
    resp' = [op |-> op, code |-> code, body |-> body]

\* make_share_token: a random prefix and the quiz id
make_share_token(nonce, qcm_id) == <<nonce, qcm_id>>

\* the unique index on invites.token rejects a second row with the token
TokenTaken(token) == \E i \in DOMAIN invites : invites[i].token = token

(***************************************************************************)
(* POST /qcm/<qcm_id>/publish                                              *)
(***************************************************************************)
\* mutant of NotDraft: the status check is missing
NotDraft_Missing(qcm_id) == FALSE

\* qcm.status != "draft" is the state conflict
NotDraft(qcm_id) == qcms[qcm_id].status # "draft"

publish_qcm(qcm_id, nonce, t) ==
    /\ Clock(t)
    /\ UNCHANGED <<questions, options, attempts, answers, procs, llm>>
    /\ IF qcm_id \notin DOMAIN qcms
       THEN /\ Reply("publish", 404, <<"qcm not found">>)
            /\ UNCHANGED <<qcms, invites>>
       ELSE IF NotDraft(qcm_id)
       THEN /\ Reply("publish", 400, <<"qcm not in draft">>)
            /\ UNCHANGED <<qcms, invites>>
       ELSE LET token == make_share_token(nonce, qcm_id)
            IN  IF TokenTaken(token)
                THEN \* IntegrityError at commit: rollback, 500
                     /\ Reply("publish", 500, <<"DB_UPDATE_FAILED">>)
                     /\ UNCHANGED <<qcms, invites>>
                ELSE /\ qcms' = [qcms EXCEPT ![qcm_id] =
                                   [status |-> "published", share_token |-> {token}]]
                     /\ invites' = Append(invites,
                                   [qcm_id |-> qcm_id, token |-> token,
                                    expires_at |-> {t + InviteTtl},
                                    max_uses |-> 0, used_count |-> 0])
                     /\ Reply("publish", 200, <<token>>)

(***************************************************************************)
(* db.invite_is_valid                                                      *)
(***************************************************************************)
\* inv.expires_at and datetime.utcnow() > inv.expires_at
Expired(inv, t) == \E e \in inv.expires_at : t > e

\* mutant of UsedUp: the cap is compared with > instead of >=
UsedUp_OffByOne(inv) == inv.max_uses # 0 /\ inv.used_count > inv.max_uses

\* inv.max_uses and inv.used_count >= inv.max_uses
UsedUp(inv) == inv.max_uses # 0 /\ inv.used_count >= inv.max_uses

invite_is_valid(inv, t) ==
    IF Expired(inv, t) THEN FALSE
    ELSE IF UsedUp(inv) THEN FALSE
    ELSE TRUE

\* session.query(Invite).filter(Invite.token == token).first()
InvitesByToken(token) == {i \in DOMAIN invites : invites[i].token = token}

\* qcm.questions
QuestionsOf(qcm_id) == {q \in DOMAIN questions : questions[q].qcm_id = qcm_id}

\* mutant of PublicQuestions: the options are sent as the admin view sends them
PublicQuestions_Leak(qs, opts, qcm_id) ==
    [q \in {x \in DOMAIN qs : qs[x].qcm_id = qcm_id} |->
        [text |-> qs[q].text,
         options |-> {<<o, opts[o].is_correct>> : o \in {x \in DOMAIN opts : opts[x].question_id = q}}]]

\* the questions as a candidate gets them, read from the tables qs and opts:
\* {"id", "text", "options": [{"id": o.id, "text": o.text} for o in q.options]}
PublicQuestions(qs, opts, qcm_id) ==
    [q \in {x \in DOMAIN qs : qs[x].qcm_id = qcm_id} |->
        [text |-> qs[q].text,
         options |-> {o \in DOMAIN opts : opts[o].question_id = q}]]

(***************************************************************************)
(* GET /public/qcm/<token>                                                 *)
(***************************************************************************)
get_public_qcm(token, t) ==
    /\ Clock(t)
    /\ UNCHANGED <<store, procs, llm>>
    /\ IF InvitesByToken(token) = {}
       THEN Reply("public", 404, <<"invalid token">>)
       ELSE \E i \in InvitesByToken(token) :
               IF ~invite_is_valid(invites[i], t)
               THEN Reply("public", 404, <<"invalid token">>)
               ELSE IF invites[i].qcm_id \notin DOMAIN qcms
               THEN Reply("public", 404, <<"qcm not found">>)
               ELSE Reply("public", 200,
                          <<invites[i].qcm_id,
                            PublicQuestions(questions, options, invites[i].qcm_id)>>)

(***************************************************************************)
(* POST /attempts/start                                                    *)
(***************************************************************************)
\* if inv.max_uses and inv.max_uses > 0
Capped(inv) == inv.max_uses # 0 /\ inv.max_uses > 0

\* mutant of Consume: the increment is not guarded by max_uses > 0
Consume_Unguarded(inv) == [inv EXCEPT !.used_count = inv.used_count + 1]

\* inv.used_count = (inv.used_count or 0) + 1
Consume(inv) ==
    IF Capped(inv) THEN [inv EXCEPT !.used_count = inv.used_count + 1] ELSE inv

\* Attempt(qcm_id=qcm.id, invite_id=inv.id, started_at=now)
NewAttempt(qcm_id, invite_id, t) ==
    [qcm_id |-> qcm_id, invite_id |-> invite_id, started_at |-> t,
     finished_at |-> {}, score |-> {}, duration_s |-> {}]

start_attempt(token, t) ==
    /\ Clock(t)
    /\ UNCHANGED <<qcms, questions, options, answers, procs, llm>>
    /\ IF token = NoToken
       THEN /\ Reply("start", 400, <<"token required">>)
            /\ UNCHANGED <<invites, attempts>>
       ELSE IF InvitesByToken(token) = {}
       THEN /\ Reply("start", 404, <<"invalid token">>)
            /\ UNCHANGED <<invites, attempts>>
       ELSE \E i \in InvitesByToken(token) :
               IF ~invite_is_valid(invites[i], t)
               THEN /\ Reply("start", 404, <<"invalid token">>)
                    /\ UNCHANGED <<invites, attempts>>
               ELSE IF invites[i].qcm_id \notin DOMAIN qcms
               THEN /\ Reply("start", 404, <<"qcm not found">>)
                    /\ UNCHANGED <<invites, attempts>>
               ELSE /\ Len(attempts) < MaxAttempts
                    /\ attempts' = Append(attempts, NewAttempt(invites[i].qcm_id, i, t))
                    /\ invites' = [invites EXCEPT ![i] = Consume(invites[i])]
                    /\ Reply("start", 201,
                             <<Len(attempts) + 1, invites[i].qcm_id,
                               PublicQuestions(questions, options, invites[i].qcm_id)>>)

(***************************************************************************)
(* POST /attempts/<attempt_id>/answer                                      *)
(***************************************************************************)
\* mutant of AnswerClosed: the finished check is missing
AnswerClosed_Missing(at) == FALSE

\* save_answer: if at.finished_at
AnswerClosed(at) == at.finished_at # {}

\* not q or q.qcm_id != at.qcm_id
QuestionInvalid(qid, at) ==
    qid \notin DOMAIN questions \/ questions[qid].qcm_id # at.qcm_id

\* mutant of OptionInvalid: the option only has to exist
OptionInvalid_AnyQuestion(opts, oid, qid) == oid \notin DOMAIN opts

\* not opt or opt.question_id != q.id, the option read from the table opts
OptionInvalid(opts, oid, qid) ==
    oid \notin DOMAIN opts \/ opts[oid].question_id # qid

\* session.query(Answer).filter(attempt_id == at.id, question_id == q.id)
ExistingAnswers(attempt_id, qid) ==
    {r \in BagToSet(answers) : r.attempt_id = attempt_id /\ r.question_id = qid}

\* Answer(attempt_id, question_id, option_id, correct=bool(opt.is_correct))
NewAnswer(attempt_id, qid, oid) ==
    [attempt_id |-> attempt_id, question_id |-> qid, option_id |-> oid,
     correct |-> options[oid].is_correct]

\* mutant of Upsert: a row is added whether or not one exists
Upsert_InsertOnly(attempt_id, qid, oid) ==
    answers' = answers (+) SetToBag({NewAnswer(attempt_id, qid, oid)})

\* mutant of Upsert: the row found is kept as it is
Upsert_KeepFirst(attempt_id, qid, oid) ==
    IF ExistingAnswers(attempt_id, qid) # {}
    THEN answers' = answers
    ELSE answers' = answers (+) SetToBag({NewAnswer(attempt_id, qid, oid)})

\* mutant of Upsert: an overwrite sets option_id and leaves ans.correct
Upsert_StaleFlag(attempt_id, qid, oid) ==
    IF ExistingAnswers(attempt_id, qid) # {}
    THEN \E ans \in ExistingAnswers(attempt_id, qid) :
            answers' = (answers (-) SetToBag({ans}))
                           (+) SetToBag({[ans EXCEPT !.option_id = oid]})
    ELSE answers' = answers (+) SetToBag({NewAnswer(attempt_id, qid, oid)})

\* the upsert: overwrite the row found, or add a row
Upsert(attempt_id, qid, oid) ==
    IF ExistingAnswers(attempt_id, qid) # {}
    THEN \E ans \in ExistingAnswers(attempt_id, qid) :
            answers' = (answers (-) SetToBag({ans}))
                           (+) SetToBag({NewAnswer(attempt_id, qid, oid)})
    ELSE answers' = answers (+) SetToBag({NewAnswer(attempt_id, qid, oid)})

save_answer(attempt_id, qid, oid) ==
    /\ UNCHANGED <<qcms, questions, options, invites, attempts, procs, now, llm>>
    /\ IF qid = 0 \/ oid = 0
       THEN Reply("answer", 400, <<"question_id and option_id are required">>) /\ UNCHANGED answers
       ELSE IF attempt_id \notin DOMAIN attempts
       THEN Reply("answer", 404, <<"attempt not found">>) /\ UNCHANGED answers
       ELSE IF AnswerClosed(attempts[attempt_id])
       THEN Reply("answer", 400, <<"attempt already finished">>) /\ UNCHANGED answers
       ELSE IF QuestionInvalid(qid, attempts[attempt_id])
       THEN Reply("answer", 400, <<"question invalid for this attempt">>) /\ UNCHANGED answers
       ELSE IF OptionInvalid(options, oid, qid)
       THEN Reply("answer", 400, <<"option invalid for this question">>) /\ UNCHANGED answers
       ELSE /\ Upsert(attempt_id, qid, oid)
            /\ Reply("answer", 200, <<TRUE>>)

(***************************************************************************)
(* POST /attempts/<attempt_id>/finish                                      *)
(***************************************************************************)
\* session.query(Answer).filter(Answer.attempt_id == at.id).all()
AnswersOf(attempt_id) ==
    LET rows == {r \in BagToSet(answers) : r.attempt_id = attempt_id}
    IN  [r \in rows |-> answers[r]]

\* sum(1 for a in answers if a.correct)
CorrectCount(attempt_id) ==
    LET rows == {r \in BagToSet(answers) : r.attempt_id = attempt_id /\ r.correct}
    IN  BagCardinality([r \in rows |-> answers[r]])

\* len(answers)
AnsweredCount(attempt_id) == BagCardinality(AnswersOf(attempt_id))

\* len(qcm.questions) if qcm.questions else 0
TotalQuestions(qcm_id) == Cardinality(QuestionsOf(qcm_id))

\* mutant of PyRound: int() in place of round()
PyRound_Truncate(n, d) == n \div d

\* Python 3 round(n / d) for n >= 0, d > 0: to the nearest integer, a tie to the even one
PyRound(n, d) ==
    LET q == n \div d
        r == n % d
    IN  IF 2 * r < d THEN q
        ELSE IF 2 * r > d THEN q + 1
        ELSE IF q % 2 = 0 THEN q ELSE q + 1

\* score = 0; if total_questions > 0: score = round(100 * correct_count / total_questions)
Score(correct_count, total_questions) ==
    IF total_questions > 0 THEN PyRound(100 * correct_count, total_questions) ELSE 0

\* mutant of AlreadyFinished: the finished check is missing
AlreadyFinished_Missing(at) == FALSE

\* finish_attempt: if at.finished_at
AlreadyFinished(at) == at.finished_at # {}

finish_attempt(attempt_id, t) ==
    /\ Clock(t)
    /\ UNCHANGED <<qcms, questions, options, invites, answers, procs, llm>>
    /\ IF attempt_id \notin DOMAIN attempts
       THEN Reply("finish", 404, <<"attempt not found">>) /\ UNCHANGED attempts
       ELSE IF AlreadyFinished(attempts[attempt_id])
       THEN Reply("finish", 400, <<"attempt already finished">>) /\ UNCHANGED attempts
       ELSE IF attempts[attempt_id].qcm_id \notin DOMAIN qcms
       THEN Reply("finish", 404, <<"qcm not found">>) /\ UNCHANGED attempts
       ELSE LET at == attempts[attempt_id]
                correct_count == CorrectCount(attempt_id)
                answered_count == AnsweredCount(attempt_id)
                total_questions == TotalQuestions(at.qcm_id)
                score == Score(correct_count, total_questions)
                duration_s == t - at.started_at
            IN  /\ attempts' = [attempts EXCEPT ![attempt_id] =
                        [at EXCEPT !.finished_at = {t},
                                   !.duration_s = {duration_s},
                                   !.score = {score}]]
                /\ Reply("finish", 200,
                         <<score, correct_count, answered_count,
                           total_questions, duration_s>>)

(***************************************************************************)
(* Requests served one at a time                                           *)
(***************************************************************************)
Next ==
    \/ \E q \in QcmIds, n \in Nonces, t \in Times : publish_qcm(q, n, t)
    \/ \E tok \in Tokens, t \in Times : get_public_qcm(tok, t)
    \/ \E tok \in Tokens \cup {NoToken}, t \in Times : start_attempt(tok, t)
    \/ \E a \in 1..MaxAttempts, q \in 0..(NumQuestions + 1),
          o \in 0..(NumQuestions * NumOptions + 1) :
          save_answer(a, q, o)
    \/ \E a \in 1..MaxAttempts, t \in Times : finish_attempt(a, t)

Spec == Init /\ [][Next]_vars

(***************************************************************************)
(* POST /attempts/start, statement by statement, for requests in flight    *)
(* at the same time.  Each request has its own session: a SELECT returns   *)
(* the committed row, the session works on its copy of the row, and        *)
(* commit() writes the copy's changed columns back.                        *)
(***************************************************************************)
\* inv = session.query(Invite).filter(Invite.token == token).first()
StartRead(p, token) ==
    /\ procs[p].pc = "idle"
    /\ UNCHANGED <<store, now, resp, llm>>
    /\ IF token = NoToken
       THEN procs' = [procs EXCEPT ![p] = [@ EXCEPT !.pc = "done", !.token = token, !.code = 400]]
       ELSE IF InvitesByToken(token) = {}
       THEN procs' = [procs EXCEPT ![p] = [@ EXCEPT !.pc = "done", !.token = token, !.code = 404]]
       ELSE \E i \in InvitesByToken(token) :
               procs' = [procs EXCEPT ![p] =
                   [@ EXCEPT !.pc = "read", !.token = token,
                             !.inv_id = i, !.inv = {invites[i]}]]

\* if not inv or not invite_is_valid(inv): 404;  qcm = session.get(Qcm, inv.qcm_id)
StartCheck(p, t) ==
    /\ procs[p].pc = "read"
    /\ Clock(t)
    /\ UNCHANGED <<store, resp, llm>>
    /\ \E inv \in procs[p].inv :
          IF ~invite_is_valid(inv, t)
          THEN procs' = [procs EXCEPT ![p] = [@ EXCEPT !.pc = "done", !.code = 404]]
          ELSE IF inv.qcm_id \notin DOMAIN qcms
          THEN procs' = [procs EXCEPT ![p] = [@ EXCEPT !.pc = "done", !.code = 404]]
          ELSE procs' = [procs EXCEPT ![p] = [@ EXCEPT !.pc = "valid"]]

\* session.add(at);  inv.used_count = (inv.used_count or 0) + 1
StartIncrement(p, t) ==
    /\ procs[p].pc = "valid"
    /\ Clock(t)
    /\ UNCHANGED <<store, resp, llm>>
    /\ \E inv \in procs[p].inv :
          procs' = [procs EXCEPT ![p] =
              [@ EXCEPT !.pc = "pending",
                        !.inv = {Consume(inv)},
                        !.at = {NewAttempt(inv.qcm_id, procs[p].inv_id, t)}]]

\* session.commit(): INSERT the attempt, UPDATE invites SET used_count = <the copy's>
StartCommit(p) ==
    /\ procs[p].pc = "pending"
    /\ Len(attempts) < MaxAttempts
    /\ UNCHANGED <<qcms, questions, options, answers, now, resp, llm>>
    /\ \E inv \in procs[p].inv, at \in procs[p].at :
          /\ attempts' = Append(attempts, at)
          /\ invites' = IF Capped(inv)
                        THEN [invites EXCEPT ![procs[p].inv_id].used_count = inv.used_count]
                        ELSE invites
    /\ procs' = [procs EXCEPT ![p] = [@ EXCEPT !.pc = "done", !.code = 201]]

NextConc ==
    \/ \E p \in Procs, tok \in Tokens \cup {NoToken} : StartRead(p, tok)
    \/ \E p \in Procs, t \in Times : StartCheck(p, t)
    \/ \E p \in Procs, t \in Times : StartIncrement(p, t)
    \/ \E p \in Procs : StartCommit(p)

SpecConc == Init /\ [][NextConc]_vars

(***************************************************************************)
(* invite_is_valid as a function of its inputs: any Invite row the         *)
(* columns of db.py admit (max_uses and used_count are plain integers)     *)
(* and any clock reading.                                                  *)
(***************************************************************************)
InitValid ==
    /\ qcms = InitQcms
    /\ questions = InitQuestions
    /\ options = InitOptions
    /\ \E m \in (-1)..MaxUses, u \in 0..MaxUses, e \in {{}} \cup {{x} : x \in Times} :
          invites = << [qcm_id |-> 2, token |-> <<0, 2>>, expires_at |-> e,
                        max_uses |-> m, used_count |-> u] >>
    /\ attempts = <<>>
    /\ answers = EmptyBag
    /\ now \in Times
    /\ resp = NoResp
    /\ procs = [p \in Procs |-> IdleProc]
    /\ llm = NoLlm

\* one call of invite_is_valid(inv) at the current clock reading
call_invite_is_valid(i) ==
    /\ resp.op = "none"
    /\ Reply("invite_is_valid", 0, <<invite_is_valid(invites[i], now)>>)
    /\ UNCHANGED <<store, now, procs, llm>>

NextValid == \E i \in DOMAIN invites : call_invite_is_valid(i)

SpecValid == InitValid /\ [][NextValid]_vars

(***************************************************************************)
(* finish_attempt on an attempt in progress of a quiz of n questions       *)
(* (0 <= n <= MaxScored) in which the candidate saved c correct and w      *)
(* wrong answers and skipped the other questions.                          *)
(***************************************************************************)
MaxScored == 10

InitScore ==
    \E n \in 0..MaxScored :
      \E c \in 0..n :
        \E w \in 0..(n - c) :
          /\ qcms = InitQcms
          /\ questions = [q \in 1..n |-> [qcm_id |-> 2, text |-> 1, explanation |-> 1]]
          /\ options = [o \in 1..(2 * n) |->
                          [question_id |-> (o + 1) \div 2, is_correct |-> (o % 2 = 1)]]
          /\ invites = << [qcm_id |-> 2, token |-> <<0, 2>>, expires_at |-> {},
                           max_uses |-> 0, used_count |-> 0] >>
          /\ attempts = << NewAttempt(2, 1, 0) >>
          /\ answers = SetToBag({ [attempt_id |-> 1, question_id |-> q,
                                   option_id |-> IF q <= c THEN 2 * q - 1 ELSE 2 * q,
                                   correct |-> (q <= c)] : q \in 1..(c + w) })
          /\ now = 0
          /\ resp = NoResp
          /\ procs = [p \in Procs |-> IdleProc]
          /\ llm = NoLlm

NextScore == \E a \in 1..MaxAttempts, t \in Times : finish_attempt(a, t)

SpecScore == InitScore /\ [][NextScore]_vars

(***************************************************************************)
(* The language model and the extraction of its structured output.         *)
(* A reply is the outcome of _lc_llm() and chain.invoke(): no model        *)
(* ("unavailable"), an exception ("raises": the call failed, or the data   *)
(* is not of the shape the extraction loop reads, such as a correct_index  *)
(* that int() refuses), or "ok" with the list data["questions"].  A        *)
(* question of a reply has a text, an explanation (0 when absent), a       *)
(* number of option strings (0 when "options" is absent or empty) and a    *)
(* correct_index, absent ({}) or an integer.  The field text of a reply    *)
(* is for the free text that generer_questions reads.                      *)
(***************************************************************************)
OptionsKept == 4        \* (q.get("options") or [])[:4]
MaxGenQuestions == 2    \* questions in one reply
MaxGenOptions == 5      \* option strings of one question of a reply
NumTexts == 1           \* distinct texts other than the empty one
MaxDrafts == 1          \* quizzes that create_draft_from_jd may add

Texts == 0..NumTexts

GenOptionCounts == {0} \cup ((OptionsKept - 1)..MaxGenOptions)

GenQuestions ==
    [question : 1..NumTexts, explanation : Texts, options : GenOptionCounts,
     correct_index : {{}} \cup {{k} : k \in 0..OptionsKept}]

LlmDown == [status |-> "unavailable", questions |-> <<>>, text |-> <<>>]

LlmRaises == [status |-> "raises", questions |-> <<>>, text |-> <<>>]

\* the replies with at most n questions
LlmReplies(n) ==
    {LlmDown, LlmRaises} \cup
    {[status |-> "ok", questions |-> qs, text |-> <<>>] :
        qs \in UNION {[1..k -> GenQuestions] : k \in 0..n}}

\* the replies to the prompt of generate_qcm_from_jd_langchain
DraftReplies == LlmReplies(MaxGenQuestions)

\* the replies to the prompt of regenerate_one_question_langchain
RegenReplies == LlmReplies(1)

\* a reply object read as a question when it has none of the keys
BlankQuestion == [question |-> 0, explanation |-> 0, options |-> 0, correct_index |-> {}]

\* correct_idx = int(q.get("correct_index", 0))
CorrectIdx(q) ==
    IF q.correct_index = {} THEN 0 ELSE CHOOSE k \in q.correct_index : TRUE

\* one question of the output: text, explanation and, for the first four
\* option strings, is_correct = (k == correct_idx)
NormalizeQuestion(q) ==
    [text |-> q.question,
     explanation |-> q.explanation,
     options |-> [k \in 1..(IF q.options < OptionsKept THEN q.options ELSE OptionsKept)
                    |-> (k - 1 = CorrectIdx(q))]]

\* mutant of NoQuestions: an empty list is accepted
NoQuestions_Missing(out_questions) == FALSE

\* if not out_questions: raise RuntimeError("Model returned no questions")
NoQuestions(out_questions) == out_questions = <<>>

\* generate_qcm_from_jd_langchain: the questions, or the exception raised
generate_qcm_from_jd_langchain(reply) ==
    IF reply.status = "unavailable"
    THEN [error |-> <<"LangChain/OpenAI not available or OPENAI_API_KEY missing">>,
          questions |-> <<>>]
    ELSE IF reply.status = "raises"
    THEN [error |-> <<"exception">>, questions |-> <<>>]
    ELSE LET out_questions ==
                 [j \in 1..Len(reply.questions) |-> NormalizeQuestion(reply.questions[j])]
         IN  IF NoQuestions(out_questions)
             THEN [error |-> <<"Model returned no questions">>, questions |-> <<>>]
             ELSE [error |-> <<>>, questions |-> out_questions]

\* regenerate_one_question_langchain: the question, or the exception raised;
\* {"questions": [q, ...]} stands for q, any other object is read as the question
regenerate_one_question_langchain(reply) ==
    IF reply.status = "unavailable"
    THEN [error |-> <<"LangChain/OpenAI not available or OPENAI_API_KEY missing">>,
          questions |-> <<>>]
    ELSE IF reply.status = "raises"
    THEN [error |-> <<"exception">>, questions |-> <<>>]
    ELSE LET q == IF reply.questions # <<>> THEN reply.questions[1] ELSE BlankQuestion
         IN  [error |-> <<>>, questions |-> <<NormalizeQuestion(q)>>]

(***************************************************************************)
(* Storage failures.  A request runs in one transaction: "write" is an     *)
(* exception raised by a flush or by the commit, after which rollback()    *)
(* leaves the tables as they were when the request began; "read_back" is   *)
(* an exception raised by a query issued after the commit.                 *)
(***************************************************************************)
StorageFaults == {"none", "write", "read_back"}

\* the option ids that answers refer to
AnsweredOptionIds == {r.option_id : r \in BagToSet(answers)}

\* uuid4() values are fresh; which fresh values are drawn cannot be
\* observed, so the ids of the n new options of question qid are the n
\* smallest ids past those of the questions before it that no option row
\* of opts has and no answer refers to
FreshOptionIds(opts, qid, n) ==
    LET used == DOMAIN opts \cup AnsweredOptionIds
        from == (qid - 1) * OptionsKept + 1
        free == {x \in from..(from + n + Cardinality(used)) : x \notin used}
    IN  {x \in free : Cardinality({y \in free : y < x}) < n}

\* session.add(Option(question_id=qid, is_correct=...)) for each option of
\* the question: the table opts with the new rows
AddOptions(opts, qid, flags) ==
    LET ids == FreshOptionIds(opts, qid, Len(flags))
    IN  [o \in DOMAIN opts \cup ids |->
            IF o \in ids
            THEN [question_id |-> qid,
                  is_correct |-> flags[1 + Cardinality({y \in ids : y < o})]]
            ELSE opts[o]]

RECURSIVE AddAllOptions(_, _, _, _)
\* the options of the questions gen[1..j], which have the ids
\* first_qid, first_qid + 1, ...
AddAllOptions(opts, gen, j, first_qid) ==
    IF j = 0 THEN opts
    ELSE AddOptions(AddAllOptions(opts, gen, j - 1, first_qid),
                    first_qid + j - 1, gen[j].options)

(***************************************************************************)
(* POST /qcm/create_draft_from_jd                                          *)
(***************************************************************************)
\* from the call of the model on: 502, or the quiz, its questions and their
\* options in one transaction
create_draft_commit(reply, fault) ==
    LET gen == generate_qcm_from_jd_langchain(reply)
        qcm_id == Len(qcms) + 1
    IN  IF gen.error # <<>>
        THEN /\ Reply("create", 502, <<"LANGCHAIN_GENERATION_FAILED">> \o gen.error)
             /\ UNCHANGED <<qcms, questions, options>>
        ELSE IF fault = "write"
        THEN \* except Exception: session.rollback()
             /\ Reply("create", 500, <<"DB_WRITE_FAILED">>)
             /\ UNCHANGED <<qcms, questions, options>>
        ELSE /\ qcms' = Append(qcms, [status |-> "draft", share_token |-> {}])
             /\ questions' = questions \o
                    [j \in 1..Len(gen.questions) |->
                        [qcm_id |-> qcm_id, text |-> gen.questions[j].text,
                         explanation |-> gen.questions[j].explanation]]
             /\ options' = AddAllOptions(options, gen.questions, Len(gen.questions),
                                         Len(questions) + 1)
             /\ Reply("create", 201, <<qcm_id, gen.questions>>)

\* jd is the job description, 0 when it is missing or blank
create_draft_from_jd(jd) ==
    /\ Len(qcms) < MaxDrafts
    /\ UNCHANGED <<invites, attempts, answers, now, procs, llm>>
    /\ IF jd = 0
       THEN /\ Reply("create", 400, <<"job_description is required">>)
            /\ UNCHANGED <<qcms, questions, options>>
       ELSE \E reply \in DraftReplies, fault \in {"none", "write"} :
               create_draft_commit(reply, fault)

(***************************************************************************)
(* POST /qcm/<qcm_id>/question/<qid>/regenerate                            *)
(***************************************************************************)
\* mutant of StaleOptions: the DELETE has no filter
StaleOptions_Unfiltered(qid) == DOMAIN options

\* session.query(Option).filter(Option.question_id == target.id).delete()
StaleOptions(qid) == {o \in DOMAIN options : options[o].question_id = qid}

\* answers.option_id is declared ON DELETE CASCADE: where the database
\* enforces foreign keys the answers on the deleted options go with them,
\* where it does not they stay
AnswersAfterDelete(stale) ==
    LET gone == {r \in BagToSet(answers) : r.option_id \in stale}
    IN  {answers, [r \in BagToSet(answers) \ gone |-> answers[r]]}

\* from the call of the model on: 502, or the update of the question and
\* the replacement of its options in one transaction, then the read-back
regenerate_commit(qcm_id, qid, reply, fault) ==
    LET gen_q == regenerate_one_question_langchain(reply)
    IN  IF gen_q.error # <<>>
        THEN /\ Reply("regenerate", 502, <<"LANGCHAIN_REGENERATE_FAILED">> \o gen_q.error)
             /\ UNCHANGED <<questions, options, answers>>
        ELSE IF fault = "write"
        THEN \* except Exception: session.rollback()
             /\ Reply("regenerate", 500, <<"DB_UPDATE_FAILED">>)
             /\ UNCHANGED <<questions, options, answers>>
        ELSE LET kept == [o \in DOMAIN options \ StaleOptions(qid) |-> options[o]]
             IN  /\ questions' = [questions EXCEPT ![qid] =
                        [@ EXCEPT !.text = gen_q.questions[1].text,
                                  !.explanation = gen_q.questions[1].explanation]]
                 /\ options' = AddOptions(kept, qid, gen_q.questions[1].options)
                 /\ answers' \in AnswersAfterDelete(StaleOptions(qid))
                 /\ IF fault = "read_back"
                    THEN \* the query after commit() raised: rollback() undoes nothing
                         Reply("regenerate", 500, <<"DB_UPDATE_FAILED">>)
                    ELSE Reply("regenerate", 200, <<qid>>)

\* the request, the model answering with one of replies and the storage
\* failing with one of faults
regenerate_request(qcm_id, qid, replies, faults) ==
    /\ UNCHANGED <<qcms, invites, attempts, now, procs, llm>>
    /\ IF qcm_id \notin DOMAIN qcms
       THEN /\ Reply("regenerate", 404, <<"qcm not found">>)
            /\ UNCHANGED <<questions, options, answers>>
       ELSE IF qid \notin DOMAIN questions \/ questions[qid].qcm_id # qcm_id
       THEN /\ Reply("regenerate", 404, <<"question not found">>)
            /\ UNCHANGED <<questions, options, answers>>
       ELSE \E reply \in replies, fault \in faults :
               regenerate_commit(qcm_id, qid, reply, fault)

regenerate_question(qcm_id, qid) ==
    regenerate_request(qcm_id, qid, RegenReplies, StorageFaults)

(***************************************************************************)
(* The admin's requests on a store that starts empty.  The clock stands    *)
(* still: no request of the admin depends on it.                           *)
(***************************************************************************)
InitGen ==
    /\ qcms = <<>>
    /\ questions = <<>>
    /\ options = <<>>
    /\ invites = <<>>
    /\ attempts = <<>>
    /\ answers = EmptyBag
    /\ now = 0
    /\ resp = NoResp
    /\ procs = [p \in Procs |-> IdleProc]
    /\ llm = NoLlm

NextGen ==
    \/ \E jd \in 0..1 : create_draft_from_jd(jd)
    \/ \E q \in QcmIds, qid \in 1..(MaxGenQuestions + 1) : regenerate_question(q, qid)
    \/ \E q \in QcmIds, n \in Nonces : publish_qcm(q, n, now)

SpecGen == InitGen /\ [][NextGen]_vars

(***************************************************************************)
(* agent.generer_questions: the extraction from free text.  The text is a  *)
(* sequence of lines [kind, n]; the kind of a line is the piece of the     *)
(* pattern that the line matches:                                          *)
(*   "question"  Question\s*\d+\s*:[^\n]+    n is the question number      *)
(*   "option"    [A-D]\)[^\n]*                                             *)
(*   "answer"    Réponse\s*:\s*[A-D]         n is the letter, 1..4         *)
(*   "other"     none of them (a blank line, prose)                        *)
(***************************************************************************)
OptionLines == 4        \* (?:[A-D]\)[^\n]*\n){4}
LetterCount == 4        \* [A-D]
MaxBlocks == 2          \* question blocks in a text
MaxOptionLines == 5     \* option lines in a block

QuestionLine(n) == [kind |-> "question", n |-> n]

OptionLine == [kind |-> "option", n |-> 0]

AnswerLine(n) == [kind |-> "answer", n |-> n]

OtherLine == [kind |-> "other", n |-> 0]

\* the pattern matches at line i: a question line, OptionLines option
\* lines and an answer line, each right after the other
BlocMatches(text, i) ==
    /\ i + OptionLines + 1 <= Len(text)
    /\ text[i].kind = "question"
    /\ \A k \in 1..OptionLines : text[i + k].kind = "option"
    /\ text[i + OptionLines + 1].kind = "answer"

\* bonne_reponse, question and options of one bloc
ParseBloc(bloc) ==
    [question |-> bloc[1].n,
     options |-> Len(SubSeq(bloc, 2, 5)),
     answer |-> bloc[Len(bloc)].n]

RECURSIVE FindAll_StopAtMismatch(_, _)
\* mutant of FindAll: a question line that opens no match ends the scan
FindAll_StopAtMismatch(text, i) ==
    IF i > Len(text) THEN <<>>
    ELSE IF BlocMatches(text, i)
    THEN <<SubSeq(text, i, i + OptionLines + 1)>>
             \o FindAll_StopAtMismatch(text, i + OptionLines + 2)
    ELSE IF text[i].kind = "question" THEN <<>>
    ELSE FindAll_StopAtMismatch(text, i + 1)

RECURSIVE FindAll(_, _)
\* re.findall(pattern, qcm_text) from line i on: the matches from left to
\* right, the scan going on after a match and one line further otherwise
FindAll(text, i) ==
    IF i > Len(text) THEN <<>>
    ELSE IF BlocMatches(text, i)
    THEN <<SubSeq(text, i, i + OptionLines + 1)>> \o FindAll(text, i + OptionLines + 2)
    ELSE FindAll(text, i + 1)

\* generer_questions on the text qcm_text: questions_list
generer_questions(qcm_text) ==
    LET blocs == FindAll(qcm_text, 1)
    IN  [b \in 1..Len(blocs) |-> ParseBloc(blocs[b])]

\* a block of text: question number n, k option lines, an answer line with
\* letter a (none when a = 0) and a blank line when blank
Block(n, k, a, blank) ==
    <<QuestionLine(n)>> \o [j \in 1..k |-> OptionLine]
        \o (IF a = 0 THEN <<>> ELSE <<AnswerLine(a)>>)
        \o (IF blank THEN <<OtherLine>> ELSE <<>>)

BlockShapes == (0..MaxOptionLines) \X (0..LetterCount) \X BOOLEAN

RECURSIVE TextOf(_, _)
\* the text made of the blocks of shapes[1..m], numbered 1..m
TextOf(shapes, m) ==
    IF m = 0 THEN <<>>
    ELSE TextOf(shapes, m - 1) \o Block(m, shapes[m][1], shapes[m][2], shapes[m][3])

\* the texts that the model may return: an optional line of introduction
\* and at most MaxBlocks blocks
LlmTexts ==
    {[status |-> "text", questions |-> <<>>, text |-> intro \o TextOf(shapes, Len(shapes))] :
        intro \in {<<>>, <<OtherLine>>},
        shapes \in UNION {[1..m -> BlockShapes] : m \in 0..MaxBlocks}}

(***************************************************************************)
(* The extraction functions on their own, each applied once to a model     *)
(* output                                                                  *)
(***************************************************************************)
InitExtract ==
    /\ qcms = <<>>
    /\ questions = <<>>
    /\ options = <<>>
    /\ invites = <<>>
    /\ attempts = <<>>
    /\ answers = EmptyBag
    /\ now = 0
    /\ resp = NoResp
    /\ procs = [p \in Procs |-> IdleProc]
    /\ (llm \in DraftReplies \/ llm \in LlmTexts)

call_generate_qcm_from_jd_langchain ==
    /\ resp.op = "none"
    /\ llm.status # "text"
    /\ Reply("generate", 0, <<generate_qcm_from_jd_langchain(llm)>>)
    /\ UNCHANGED <<store, now, procs, llm>>

call_regenerate_one_question_langchain ==
    /\ resp.op = "none"
    /\ llm.status # "text"
    /\ Reply("regenerate_one", 0, <<regenerate_one_question_langchain(llm)>>)
    /\ UNCHANGED <<store, now, procs, llm>>

call_generer_questions ==
    /\ resp.op = "none"
    /\ llm.status = "text"
    /\ Reply("generer_questions", 0, <<generer_questions(llm.text)>>)
    /\ UNCHANGED <<store, now, procs, llm>>

NextExtract ==
    \/ call_generate_qcm_from_jd_langchain
    \/ call_regenerate_one_question_langchain
    \/ call_generer_questions

SpecExtract == InitExtract /\ [][NextExtract]_vars

(***************************************************************************)
(* publish_qcm, save_answer and finish_attempt statement by statement,     *)
(* for requests in flight at the same time, on a store that holds quiz 1,  *)
(* published, with its invite and an attempt in progress, and quiz 2, a    *)
(* draft.  As for start_attempt, a SELECT returns the committed rows, the  *)
(* session works on its copies and commit() writes the changed columns;    *)
(* no table has a constraint that a second writer could violate, except    *)
(* the unique index on invites.token.  procs[p].arg is the request,        *)
(* procs[p].seen what its session has read or computed so far.             *)
(***************************************************************************)
InitRace ==
    /\ qcms = <<[status |-> "published", share_token |-> {<<0, 1>>}],
                [status |-> "draft", share_token |-> {}]>>
    /\ questions = InitQuestions
    /\ options = InitOptions
    /\ invites = << [qcm_id |-> 1, token |-> <<0, 1>>, expires_at |-> {},
                     max_uses |-> 0, used_count |-> 0] >>
    /\ attempts = << NewAttempt(1, 1, 0) >>
    /\ \E rows \in SUBSET {[attempt_id |-> 1, question_id |-> 1, option_id |-> 2,
                            correct |-> options[2].is_correct]} :
          answers = SetToBag(rows)
    /\ now = 0
    /\ resp = NoResp
    /\ procs = [p \in Procs |-> IdleProc]
    /\ llm = NoLlm

\* the request p ends with the status code
Done(p, arg, code) ==
    procs' = [procs EXCEPT ![p] = [@ EXCEPT !.pc = "done", !.arg = arg, !.code = code]]

\* secrets.token_urlsafe(24) of the requests in flight: each draws its own
\* value, and two may draw the same
RaceNonces == 1..NumProcs

\* qcm = session.get(Qcm, qcm_id); if not qcm: 404; if qcm.status != "draft": 400
PublishRead(p, qcm_id) ==
    /\ procs[p].pc = "idle"
    /\ UNCHANGED <<store, now, resp, llm>>
    /\ IF qcm_id \notin DOMAIN qcms
       THEN Done(p, <<"publish", qcm_id>>, 404)
       ELSE IF NotDraft(qcm_id)
       THEN Done(p, <<"publish", qcm_id>>, 400)
       ELSE procs' = [procs EXCEPT ![p] =
                [@ EXCEPT !.pc = "publishing", !.arg = <<"publish", qcm_id>>]]

\* token = make_share_token(qcm.id); qcm.status = "published";
\* qcm.share_token = token; session.add(invite); session.commit()
PublishCommit(p, nonce, t) ==
    /\ procs[p].pc = "publishing"
    /\ Clock(t)
    /\ UNCHANGED <<questions, options, attempts, answers, resp, llm>>
    /\ LET qcm_id == procs[p].arg[2]
           token == make_share_token(nonce, qcm_id)
       IN  IF TokenTaken(token)
           THEN \* IntegrityError at commit: rollback, 500
                /\ UNCHANGED <<qcms, invites>>
                /\ procs' = [procs EXCEPT ![p] = [@ EXCEPT !.pc = "done", !.code = 500]]
           ELSE /\ qcms' = [qcms EXCEPT ![qcm_id] =
                              [status |-> "published", share_token |-> {token}]]
                /\ invites' = Append(invites,
                              [qcm_id |-> qcm_id, token |-> token,
                               expires_at |-> {t + InviteTtl},
                               max_uses |-> 0, used_count |-> 0])
                /\ procs' = [procs EXCEPT ![p] =
                        [@ EXCEPT !.pc = "done", !.code = 200, !.token = token]]

\* at = session.get(Attempt, attempt_id); if not at: 404; if at.finished_at: 400
FinishRead(p, attempt_id) ==
    /\ procs[p].pc = "idle"
    /\ UNCHANGED <<store, now, resp, llm>>
    /\ IF attempt_id \notin DOMAIN attempts
       THEN Done(p, <<"finish", attempt_id>>, 404)
       ELSE IF AlreadyFinished(attempts[attempt_id])
       THEN Done(p, <<"finish", attempt_id>>, 400)
       ELSE procs' = [procs EXCEPT ![p] =
                [@ EXCEPT !.pc = "finishing", !.arg = <<"finish", attempt_id>>,
                          !.at = {attempts[attempt_id]}]]

\* qcm = session.get(Qcm, at.qcm_id, ...); answers = session.query(Answer)...all();
\* correct_count, answered_count, total_questions, score.  The two queries
\* are taken together: no request adds a question to a quiz or removes one.
FinishCount(p) ==
    /\ procs[p].pc = "finishing"
    /\ UNCHANGED <<store, now, resp, llm>>
    /\ \E at \in procs[p].at :
          IF at.qcm_id \notin DOMAIN qcms
          THEN procs' = [procs EXCEPT ![p] = [@ EXCEPT !.pc = "done", !.code = 404]]
          ELSE LET attempt_id == procs[p].arg[2]
                   correct_count == CorrectCount(attempt_id)
                   total_questions == TotalQuestions(at.qcm_id)
               IN  procs' = [procs EXCEPT ![p] =
                       [@ EXCEPT !.pc = "counted",
                                 !.seen = <<correct_count, AnsweredCount(attempt_id),
                                            total_questions,
                                            Score(correct_count, total_questions)>>]]

\* now = datetime.now(timezone.utc); at.finished_at = now; at.duration_s = ...;
\* at.score = score; session.commit(): UPDATE attempts SET the three columns
FinishCommit(p, t) ==
    /\ procs[p].pc = "counted"
    /\ Clock(t)
    /\ UNCHANGED <<qcms, questions, options, invites, answers, resp, llm>>
    /\ \E at \in procs[p].at :
          attempts' = [attempts EXCEPT ![procs[p].arg[2]] =
              [@ EXCEPT !.finished_at = {t},
                        !.duration_s = {t - at.started_at},
                        !.score = {procs[p].seen[4]}]]
    /\ procs' = [procs EXCEPT ![p] = [@ EXCEPT !.pc = "done", !.code = 200]]

\* save_answer up to opt = session.get(Option, oid) and its test
SaveRead(p, attempt_id, qid, oid) ==
    /\ procs[p].pc = "idle"
    /\ UNCHANGED <<store, now, resp, llm>>
    /\ LET arg == <<"answer", attempt_id, qid, oid>>
       IN  IF qid = 0 \/ oid = 0
           THEN Done(p, arg, 400)
           ELSE IF attempt_id \notin DOMAIN attempts
           THEN Done(p, arg, 404)
           ELSE IF AnswerClosed(attempts[attempt_id])
           THEN Done(p, arg, 400)
           ELSE IF QuestionInvalid(qid, attempts[attempt_id])
           THEN Done(p, arg, 400)
           ELSE IF OptionInvalid(options, oid, qid)
           THEN Done(p, arg, 400)
           ELSE procs' = [procs EXCEPT ![p] =
                    [@ EXCEPT !.pc = "saving", !.arg = arg,
                              !.seen = <<options[oid].is_correct>>]]

\* ans = session.query(Answer).filter(attempt_id == at.id, question_id == q.id).first()
SaveLookup(p) ==
    /\ procs[p].pc = "saving"
    /\ UNCHANGED <<store, now, resp, llm>>
    /\ LET found == ExistingAnswers(procs[p].arg[2], procs[p].arg[3])
       IN  \E ans \in (IF found = {} THEN {{}} ELSE {{r} : r \in found}) :
              procs' = [procs EXCEPT ![p] =
                  [@ EXCEPT !.pc = "looked", !.seen = Append(@, ans)]]

\* if ans: ans.option_id = ...; ans.correct = ...  else: session.add(Answer(...));
\* session.commit(): UPDATE of the row found, by its id, or INSERT
SaveCommit(p) ==
    /\ procs[p].pc = "looked"
    /\ UNCHANGED <<qcms, questions, options, invites, attempts, now, resp, llm>>
    /\ LET attempt_id == procs[p].arg[2]
           qid == procs[p].arg[3]
           row == [attempt_id |-> attempt_id, question_id |-> qid,
                   option_id |-> procs[p].arg[4], correct |-> procs[p].seen[1]]
       IN  IF procs[p].seen[2] = {}
           THEN answers' = answers (+) SetToBag({row})
           ELSE \E cur \in ExistingAnswers(attempt_id, qid) :
                   answers' = (answers (-) SetToBag({cur})) (+) SetToBag({row})
    /\ procs' = [procs EXCEPT ![p] = [@ EXCEPT !.pc = "done", !.code = 200]]

NextRace ==
    \/ \E p \in Procs, q \in QcmIds : PublishRead(p, q)
    \/ \E p \in Procs, n \in RaceNonces, t \in Times : PublishCommit(p, n, t)
    \/ \E p \in Procs, a \in 1..MaxAttempts : FinishRead(p, a)
    \/ \E p \in Procs : FinishCount(p)
    \/ \E p \in Procs, t \in Times : FinishCommit(p, t)
    \/ \E p \in Procs, a \in 1..MaxAttempts, q \in 0..NumQuestions,
          o \in 0..(NumQuestions * NumOptions) : SaveRead(p, a, q, o)
    \/ \E p \in Procs : SaveLookup(p)
    \/ \E p \in Procs : SaveCommit(p)

SpecRace == InitRace /\ [][NextRace]_vars

(***************************************************************************)
(* Attempts on a quiz whose questions are regenerated meanwhile: quiz 1,   *)
(* published, with its questions, options and invite; requests served one  *)
(* at a time.  Question 1 is the one regenerated, question 2 its sibling.  *)
(* The clock stands still.                                                 *)
(***************************************************************************)
MaxLifeAttempts == 1     \* attempts started

\* the replies of the model while attempts run: no model, or one question
\* without explanation, with no option or OptionsKept options, and a
\* correct_index of 0, 1 or OptionsKept (out of range)
LifeReplies ==
    {LlmDown} \cup
    {r \in RegenReplies :
        /\ r.status = "ok" /\ Len(r.questions) = 1
        /\ r.questions[1].explanation = 0
        /\ r.questions[1].options \in {0, OptionsKept}
        /\ r.questions[1].correct_index \in {{0}, {1}, {OptionsKept}}}

InitLife ==
    /\ qcms = <<[status |-> "published", share_token |-> {<<0, 1>>}]>>
    /\ questions = InitQuestions
    /\ options = InitOptions
    /\ invites = << [qcm_id |-> 1, token |-> <<0, 1>>, expires_at |-> {},
                     max_uses |-> 0, used_count |-> 0] >>
    /\ attempts = <<>>
    /\ answers = EmptyBag
    /\ now = 0
    /\ resp = NoResp
    /\ procs = [p \in Procs |-> IdleProc]
    /\ llm = NoLlm

NextLife ==
    \/ Len(attempts) < MaxLifeAttempts /\ start_attempt(<<0, 1>>, now)
    \/ \E a \in 1..MaxLifeAttempts, q \in QuestionIds, o \in DOMAIN options :
          save_answer(a, q, o)
    \/ regenerate_request(1, 1, LifeReplies, {"none", "write"})
    \/ \E a \in 1..MaxLifeAttempts : finish_attempt(a, now)

SpecLife == InitLife /\ [][NextLife]_vars

(***************************************************************************)
(* Claims                                                                  *)
(***************************************************************************)

\* C1: a publish on a quiz whose status is not draft answers 400 and leaves
\* the quiz row (status, share_token) and the invites table unchanged; no
\* step of any handler changes the row of a quiz that is not a draft, so a
\* quiz goes from draft to published once.
C1_PublishOnce ==
    [][ /\ resp'.op = "publish" =>
             \A q \in DOMAIN qcms, n \in Nonces, t \in Times :
                (qcms[q].status # "draft" /\ publish_qcm(q, n, t))
                    => /\ resp'.code = 400
                       /\ qcms' = qcms
                       /\ invites' = invites
        /\ \A q \in DOMAIN qcms :
             qcms[q].status # "draft" => qcms'[q] = qcms[q]
      ]_vars

\* C1 witness: quiz 1 went from draft to published and a further publish
\* was refused
C1_Witness ==
    /\ qcms[1].status = "published"
    /\ resp = [op |-> "publish", code |-> 400, body |-> <<"qcm not in draft">>]

\* C2 (as claimed): invite_is_valid returns false exactly when the clock is
\* past expires_at or (max_uses > 0 and used_count >= max_uses), and true
\* in every other case, among them every max_uses that is not positive.
C2_ValidExactly ==
    resp.op = "invite_is_valid" =>
        \A i \in DOMAIN invites :
            resp.body[1] =
                ~ \/ \E e \in invites[i].expires_at : now > e
                  \/ (invites[i].max_uses > 0
                        /\ invites[i].used_count >= invites[i].max_uses)

\* C3 (as claimed): when the simultaneous start requests on the token of an
\* invite with max_uses = 1, used_count = 0 and no expiry have all answered,
\* one attempt was created and one request got 201.
C3_OneWinner ==
    LET started == \A p \in Procs : procs[p].pc = "done" /\ procs[p].token = <<0, 2>>
    IN  (started /\ invites[1].max_uses = 1 /\ invites[1].expires_at = {})
            => /\ Len(attempts) = 1
               /\ Cardinality({p \in Procs : procs[p].code = 201}) = 1

\* C4: a finish on an attempt that is already finished answers 400, and no
\* step changes the row (finished_at, score, duration_s) of a finished
\* attempt, so the values of the first finish stay.
C4_FinishOnce ==
    [][ \A a \in DOMAIN attempts :
            attempts[a].finished_at # {}
                => /\ attempts'[a] = attempts[a]
                   /\ (resp'.op = "finish" /\ resp'.code # 400)
                         => \A t \in Times : ~finish_attempt(a, t)
      ]_vars

\* C4 witness: a finished attempt, with the score and duration of its first
\* finish, on which a further finish was refused
C4_Witness ==
    /\ resp = [op |-> "finish", code |-> 400, body |-> <<"attempt already finished">>]
    /\ \E a \in DOMAIN attempts :
          /\ attempts[a].finished_at # {}
          /\ attempts[a].score # {}
          /\ attempts[a].duration_s # {}

\* the rows of a table of answers for one (attempt, question) pair, and
\* how many they are
RowsIn(table, a, q) ==
    {r \in BagToSet(table) : r.attempt_id = a /\ r.question_id = q}

CountIn(table, a, q) ==
    BagCardinality([r \in RowsIn(table, a, q) |-> table[r]])

\* C5: after a successful save_answer(a, q, o) the answers of (a, q) are one
\* row, holding o and the is_correct flag of o; the rows of every other
\* (attempt, question) pair are as before; so each answered question has
\* exactly one row, that of its latest save.
C5_OneRowLatest ==
    [][ (resp'.op = "answer" /\ resp'.code = 200) =>
         \A a \in 1..MaxAttempts, q \in DOMAIN questions, o \in DOMAIN options :
            save_answer(a, q, o)
                => /\ RowsIn(answers', a, q) =
                          {[attempt_id |-> a, question_id |-> q, option_id |-> o,
                            correct |-> options[o].is_correct]}
                   /\ \A a2 \in 1..MaxAttempts, q2 \in DOMAIN questions :
                          /\ CountIn(answers', a2, q2) <= 1
                          /\ (a2 # a \/ q2 # q)
                                => RowsIn(answers', a2, q2) = RowsIn(answers, a2, q2)
      ]_vars

\* C5 witness: after a successful save an attempt holds one row for each of
\* its two questions, one of them on the second option of question 1
C5_Witness ==
    /\ resp.op = "answer" /\ resp.code = 200
    /\ \E a \in DOMAIN attempts :
          /\ CountIn(answers, a, 1) = 1
          /\ CountIn(answers, a, 2) = 1
          /\ \E r \in RowsIn(answers, a, 1) : r.option_id = 2 /\ ~r.correct

\* the nearest integer to n / d, a tie going to the even one
NearestEven(s, n, d) ==
    LET diff == IF n >= s * d THEN n - s * d ELSE s * d - n
    IN  /\ 2 * diff <= d
        /\ (2 * diff = d) => (s % 2 = 0)

\* C6: the score stored by a successful finish_attempt, which is the score
\* it returns, is round(100 * correct_count / total_questions) (Python's
\* round: nearest integer, a tie to the even one), with correct_count the
\* number of answers of the attempt flagged correct and total_questions the
\* number of questions of its quiz; it is 0 for a quiz of no question, and
\* 70 for 7 correct of 10.
C6_Score ==
    /\ \A a \in DOMAIN attempts :
          attempts[a].finished_at # {} =>
             LET c == Cardinality({r \in BagToSet(answers) :
                                     r.attempt_id = a /\ r.correct})
                 n == Cardinality({q \in DOMAIN questions :
                                     questions[q].qcm_id = attempts[a].qcm_id})
             IN  \E s \in 0..100 :
                    /\ attempts[a].score = {s}
                    /\ IF n = 0 THEN s = 0 ELSE NearestEven(s, 100 * c, n)
                    /\ (c = 7 /\ n = 10) => s = 70
    /\ (resp.op = "finish" /\ resp.code = 200)
          => \E a \in DOMAIN attempts : attempts[a].score = {resp.body[1]}

\* C6 witness: 7 correct and 1 wrong answer on a quiz of 10 questions,
\* finished with score 70
C6_Witness ==
    /\ resp.op = "finish" /\ resp.code = 200
    /\ resp.body[1] = 70 /\ resp.body[2] = 7 /\ resp.body[3] = 8 /\ resp.body[4] = 10
    /\ attempts[1].score = {70}

\* C7: a successful finish_attempt returns correct_count <= answered_count
\* <= total_questions, and answered_count is the number of questions of the
\* quiz that have an answer in the attempt.
C7_Counts ==
    [][ (resp'.op = "finish" /\ resp'.code = 200) =>
         \A a \in DOMAIN attempts, t \in Times :
            finish_attempt(a, t)
                => /\ resp'.body[2] <= resp'.body[3]
                   /\ resp'.body[3] <= resp'.body[4]
                   /\ resp'.body[3] =
                        Cardinality({q \in DOMAIN questions :
                                        /\ questions[q].qcm_id = attempts[a].qcm_id
                                        /\ RowsIn(answers, a, q) # {}})
      ]_vars

\* C7 witness: a finish that counted one correct answer, one answered
\* question and two questions (one was skipped)
C7_Witness ==
    /\ resp.op = "finish" /\ resp.code = 200
    /\ resp.body[2] = 1 /\ resp.body[3] = 1 /\ resp.body[4] = 2

\* validity of an invite as the specification states it
ClaimValid(inv, t) ==
    /\ ~ \E e \in inv.expires_at : t > e
    /\ (inv.max_uses = 0 \/ inv.used_count < inv.max_uses)

\* C8: a start_attempt on the token of a valid invite answers 201 and adds
\* exactly one attempt, in progress (finished_at, score, duration_s unset),
\* of the invite's quiz and invite; used_count grows by 1 when max_uses > 0
\* and stays when max_uses = 0; nothing else in the two tables changes.
C8_StartCreates ==
    [][ resp'.op = "start" =>
         \A tok \in Tokens, t \in Times :
          \A i \in InvitesByToken(tok) :
            (start_attempt(tok, t) /\ ClaimValid(invites[i], t))
                => /\ resp'.code = 201
                   /\ attempts' = Append(attempts,
                         [qcm_id |-> invites[i].qcm_id, invite_id |-> i,
                          started_at |-> t, finished_at |-> {},
                          score |-> {}, duration_s |-> {}])
                   /\ invites' = [invites EXCEPT ![i].used_count =
                         IF invites[i].max_uses > 0 THEN @ + 1 ELSE @]
      ]_vars

\* C8 witness: two starts with the same token made two attempts in progress
\* and consumed two uses of a capped invite
C8_Witness ==
    /\ resp.op = "start" /\ resp.code = 201
    /\ Len(attempts) = 2
    /\ attempts[1].invite_id = 1 /\ attempts[2].invite_id = 1
    /\ attempts[2].finished_at = {} /\ attempts[2].score = {}
    /\ invites[1].max_uses = 2 /\ invites[1].used_count = 2

\* C9: a start_attempt or get_public_qcm on a token that matches no invite,
\* or whose invite is expired or capped with used_count >= max_uses, answers
\* 404, creates no attempt and changes no invite.
C9_InvalidToken ==
    [][ resp'.op \in {"start", "public"} =>
         \A tok \in Tokens, t \in Times :
            ( /\ \A i \in InvitesByToken(tok) : ~ClaimValid(invites[i], t)
              /\ (start_attempt(tok, t) \/ get_public_qcm(tok, t)) )
                => /\ resp'.code = 404
                   /\ attempts' = attempts
                   /\ invites' = invites
      ]_vars

\* C9 witness: a start refused with 404 in a store whose every invite is
\* expired or used up, one of them used up
C9_Witness ==
    /\ resp = [op |-> "start", code |-> 404, body |-> <<"invalid token">>]
    /\ \A i \in DOMAIN invites : ~ClaimValid(invites[i], now)
    /\ \E i \in DOMAIN invites :
          invites[i].max_uses > 0 /\ invites[i].used_count >= invites[i].max_uses

\* C10: a save_answer on a finished attempt answers 400 and leaves the
\* answers and the attempts (score, duration_s) as they were.
C10_AnswerClosed ==
    [][ \A a \in DOMAIN attempts :
            attempts[a].finished_at # {} =>
               \/ /\ resp'.code = 400
                  /\ answers' = answers
                  /\ attempts' = attempts
               \/ \A q \in 0..(NumQuestions + 1), o \in 0..(NumQuestions * NumOptions + 1) :
                     ~save_answer(a, q, o)
      ]_vars

\* C10 witness: a save refused because the attempt, which holds an answer,
\* is finished
C10_Witness ==
    /\ resp = [op |-> "answer", code |-> 400, body |-> <<"attempt already finished">>]
    /\ \E a \in DOMAIN attempts :
          /\ attempts[a].finished_at # {}
          /\ \E q \in DOMAIN questions : RowsIn(answers, a, q) # {}

\* C11: for an existing attempt, a save_answer whose question is unknown or
\* of another quiz than the attempt's, or whose option is unknown or of
\* another question, answers 400 and leaves the answers as they were; a
\* save that answers 200 named a question of the attempt's quiz and an
\* option of that question.
C11_Validates ==
    [][ resp'.op = "answer" =>
          \/ resp'.code = 400 /\ answers' = answers
          \/ \A a \in DOMAIN attempts, q \in 0..(NumQuestions + 1),
                o \in 0..(NumQuestions * NumOptions + 1) :
                LET qOk == q \in DOMAIN questions
                             /\ questions[q].qcm_id = attempts[a].qcm_id
                    oOk == o \in DOMAIN options /\ options[o].question_id = q
                IN  (qOk /\ oOk) \/ ~save_answer(a, q, o)
      ]_vars

\* C11 witness: an attempt in progress that holds an answer, on which a
\* save was refused because the option is not one of the question
C11_Witness ==
    /\ resp = [op |-> "answer", code |-> 400, body |-> <<"option invalid for this question">>]
    /\ \E a \in DOMAIN attempts :
          /\ attempts[a].finished_at = {}
          /\ \E q \in DOMAIN questions : RowsIn(answers, a, q) # {}

\* C12: after a successful save_answer(a, q, o) every row of (a, q), whether
\* it was added or overwritten, holds o and the is_correct flag that o has
\* in the options table at the save.
C12_CorrectFlag ==
    [][ (resp'.op = "answer" /\ resp'.code = 200) =>
         \A a \in DOMAIN attempts, q \in DOMAIN questions, o \in DOMAIN options :
            save_answer(a, q, o) =>
               /\ RowsIn(answers', a, q) # {}
               /\ \A r \in RowsIn(answers', a, q) :
                     r.option_id = o /\ r.correct = options[o].is_correct
               /\ RowsIn(answers, a, q) # {} => CountIn(answers', a, q) = CountIn(answers, a, q)
               /\ RowsIn(answers, a, q) = {} => CountIn(answers', a, q) = 1
      ]_vars

\* C12 witness: after a successful save an attempt holds an answer flagged
\* correct and an answer flagged wrong, each with the flag of its option
C12_Witness ==
    /\ resp.op = "answer" /\ resp.code = 200
    /\ \E a \in DOMAIN attempts :
          /\ \E r \in BagToSet(answers) :
                r.attempt_id = a /\ r.correct /\ options[r.option_id].is_correct
          /\ \E r \in BagToSet(answers) :
                r.attempt_id = a /\ ~r.correct /\ ~options[r.option_id].is_correct

\* the options tables that differ from opts only in which options are
\* marked correct
CorrectVariants(opts) ==
    {[o \in DOMAIN opts |-> [opts[o] EXCEPT !.is_correct = f[o]]] :
        f \in [DOMAIN opts -> BOOLEAN]}

\* the questions tables that differ from qs only in the explanations
ExplanationVariants(qs) ==
    {[q \in DOMAIN qs |-> [qs[q] EXCEPT !.explanation = f[q]]] :
        f \in [DOMAIN qs -> 0..1]}

\* C13: the response of a get_public_qcm, start_attempt or save_answer is
\* the same in every store that differs from the current one only in which
\* options are marked correct and in the explanations: the questions sent
\* are those read from any such store, an option refused or accepted is
\* refused or accepted in any such store, and a successful save answers
\* {"saved": true} whatever the correctness of the answer.
C13_NoLeak ==
    [][ /\ ((resp'.op = "public" /\ resp'.code = 200) \/ (resp'.op = "start" /\ resp'.code = 201))
              => \A alt \in CorrectVariants(options), altq \in ExplanationVariants(questions) :
                    resp'.body[Len(resp'.body)] =
                        PublicQuestions(altq, alt, resp'.body[Len(resp'.body) - 1])
        /\ (resp'.op = "answer" /\ resp'.code = 200) => resp'.body = <<TRUE>>
        /\ (resp'.op = "answer"
               /\ (resp'.code = 200
                     \/ (resp'.code = 400
                           /\ resp'.body = <<"option invalid for this question">>)))
              => \A alt \in CorrectVariants(options) :
                    \A q \in DOMAIN questions, o \in 1..(NumQuestions * NumOptions + 1) :
                       OptionInvalid(alt, o, q) = OptionInvalid(options, o, q)
      ]_vars

\* C13 witness: a start answered with the two questions of quiz 1, each
\* with its two options, one marked correct in the store and one not
C13_Witness ==
    /\ resp.op = "start" /\ resp.code = 201
    /\ DOMAIN resp.body[3] = {1, 2}
    /\ \A q \in {1, 2} :
          /\ Cardinality(resp.body[3][q].options) = 2
          /\ \E o1, o2 \in resp.body[3][q].options :
                options[o1].is_correct /\ ~options[o2].is_correct

\* C20: no two invites have the same token or the same quiz, and the
\* invites table changes only by a publish that answers 200, which adds one
\* invite, for a quiz that was a draft.
C20_UniqueInvites ==
    [][ /\ \A i, j \in DOMAIN invites' :
              i # j => /\ invites'[i].token # invites'[j].token
                       /\ invites'[i].qcm_id # invites'[j].qcm_id
        /\ Len(invites') # Len(invites) =>
              /\ resp'.op = "publish" /\ resp'.code = 200
              /\ Len(invites') = Len(invites) + 1
              /\ SubSeq(invites', 1, Len(invites)) = invites
              /\ qcms[invites'[Len(invites')].qcm_id].status = "draft"
      ]_vars

\* C20 witness: two invites, the second minted by the publish of quiz 1
\* that just answered 200
C20_Witness ==
    /\ resp.op = "publish" /\ resp.code = 200
    /\ Len(invites) = 2
    /\ invites[2].qcm_id = 1
    /\ qcms[1].share_token = {invites[2].token}

\* the replies on which the generation fails: no model, a call that raises,
\* an output without any question
FailingReplies ==
    {LlmDown, LlmRaises, [status |-> "ok", questions |-> <<>>, text |-> <<>>]}

\* C14: when the generation of create_draft_from_jd fails (no model, the
\* call raises, or the output has no question) the request answers 502 and
\* the store is as before the call; and every 502 of create_draft_from_jd
\* leaves the store as it was.
C14_GenerationFails ==
    [][ resp'.op = "create" =>
          /\ resp'.code = 502 => store' = store
          /\ \A reply \in FailingReplies, fault \in {"none", "write"} :
                (resp'.code = 502 /\ store' = store)
                    \/ ~create_draft_commit(reply, fault)
      ]_vars

\* C14 witness: an output without questions was answered 502 and no quiz,
\* question or option is stored
C14_Witness ==
    /\ resp = [op |-> "create", code |-> 502,
               body |-> <<"LANGCHAIN_GENERATION_FAILED", "Model returned no questions">>]
    /\ qcms = <<>> /\ questions = <<>> /\ options = <<>>

\* C15: a request that answers 500 leaves the store exactly as it was
\* before the call.
C15_Atomic ==
    [][ resp'.code = 500 => store' = store ]_vars

\* the options of question q in the table opts
OptionsOfQuestion(opts, q) == {o \in DOMAIN opts : opts[o].question_id = q}

\* C16: every stored question has exactly 4 options and exactly one of
\* them is correct.
C16_FourOptionsOneCorrect ==
    \A q \in DOMAIN questions :
        /\ Cardinality(OptionsOfQuestion(options, q)) = 4
        /\ Cardinality({o \in OptionsOfQuestion(options, q) : options[o].is_correct}) = 1

\* the index in 0..3 that the claim gives for the correct_index of q
CoercedIndex(q) ==
    IF q.correct_index = {} \/ q.correct_index \cap (0..3) = {}
    THEN 0
    ELSE CHOOSE k \in q.correct_index : TRUE

\* C17: in the output of the two extractors, a question that came with at
\* least 4 options has 4 options and the one marked correct is the one at
\* its correct_index, or at 0 when correct_index is missing or not in 0..3.
C17_CoercedIndex ==
    (resp.op \in {"generate", "regenerate_one"} /\ resp.body[1].error = <<>>) =>
        \A j \in 1..Len(resp.body[1].questions) :
            (j <= Len(llm.questions) /\ llm.questions[j].options >= 4) =>
                resp.body[1].questions[j].options =
                    [k \in 1..4 |-> k - 1 = CoercedIndex(llm.questions[j])]

\* the lines at which a block of the text begins: its question lines
BlockStarts(text) == {i \in 1..Len(text) : text[i].kind = "question"}

\* the last line of the block that begins at line i
BlockEnd(text, i) ==
    IF \E j \in BlockStarts(text) : j > i
    THEN (CHOOSE j \in BlockStarts(text) : j > i /\ \A k \in BlockStarts(text) : k > i => j <= k) - 1
    ELSE Len(text)

\* the block that begins at line i has, after its question line, exactly 4
\* option lines and then an answer line
WellFormed(text, i) ==
    /\ BlockEnd(text, i) >= i + 5
    /\ \A k \in 1..4 : text[i + k].kind = "option"
    /\ text[i + 5].kind = "answer"

\* C18: generer_questions returns, in the order of the text, one question
\* for each well-formed block, with the block's question, 4 options and
\* answer letter, and nothing for any other block; so a text of one
\* well-formed block and one block with 3 options yields one question in
\* either order.
C18_OnePerWellFormedBlock ==
    resp.op = "generer_questions" =>
        LET text == llm.text
            good == {i \in BlockStarts(text) : WellFormed(text, i)}
            out == resp.body[1]
        IN  /\ Len(out) = Cardinality(good)
            /\ \A i \in good :
                  out[Cardinality({j \in good : j <= i})] =
                      [question |-> text[i].n, options |-> 4, answer |-> text[i + 5].n]

\* C18 witness: a block with 3 options, then a well-formed block; the
\* second is the only question returned
C18_Witness ==
    /\ resp.op = "generer_questions"
    /\ llm.text = Block(1, 3, 2, TRUE) \o Block(2, 4, 3, FALSE)
    /\ resp.body[1] = <<[question |-> 2, options |-> 4, answer |-> 3]>>

\* the rows of question q in the table opts, each with its id
OptionRows(opts, q) == {<<o, opts[o]>> : o \in OptionsOfQuestion(opts, q)}

\* the questions that regenerate_one_question_langchain can return
RegenOutputs ==
    {regenerate_one_question_langchain(reply).questions[1] :
        reply \in {r \in RegenReplies : r.status = "ok"}}

\* for each of them, a reply of the model that gives it
ReplyFor ==
    [g \in RegenOutputs |->
        CHOOSE r \in RegenReplies :
            r.status = "ok" /\ regenerate_one_question_langchain(r).questions[1] = g]

\* C19: a regenerate_question that answers 200 for question q gives q the
\* text and the explanation of the generated question and, as its options,
\* one row per generated option with its is_correct; q keeps its id
\* and its quiz; every other question and its options, and every quiz, are
\* as before.
C19_RegenerateFrame ==
    [][ (resp'.op = "regenerate" /\ resp'.code = 200) =>
          LET q == resp'.body[1]
              n == Cardinality(OptionsOfQuestion(options', q))
              c == Cardinality({o \in OptionsOfQuestion(options', q) : options'[o].is_correct})
          IN  /\ qcms' = qcms
              /\ DOMAIN questions' = DOMAIN questions
              /\ questions'[q].qcm_id = questions[q].qcm_id
              /\ \A x \in DOMAIN questions \ {q} :
                    /\ questions'[x] = questions[x]
                    /\ OptionRows(options', x) = OptionRows(options, x)
              /\ \A g \in RegenOutputs :
                    \/ /\ questions'[q].text = g.text
                       /\ questions'[q].explanation = g.explanation
                       /\ n = Len(g.options)
                       /\ c = Cardinality({k \in 1..Len(g.options) : g.options[k]})
                    \/ ~regenerate_commit(questions[q].qcm_id, q, ReplyFor[g], "none")
      ]_vars

\* C19 witness: question 1 of a published quiz of two questions was
\* regenerated; it has 4 options, one correct, and its sibling has options
C19_Witness ==
    /\ resp = [op |-> "regenerate", code |-> 200, body |-> <<1>>]
    /\ Len(questions) = 2
    /\ qcms[1].status = "published"
    /\ Cardinality(OptionsOfQuestion(options, 1)) = 4
    /\ \E o \in OptionsOfQuestion(options, 1) : options[o].is_correct
    /\ OptionsOfQuestion(options, 2) # {}

\* every request in flight has answered, and each was the request arg
AllDone(arg) == \A p \in Procs : procs[p].pc = "done" /\ procs[p].arg = arg

\* C21 (as claimed): when the simultaneous publish requests on the draft
\* quiz 2 have all answered, one of them got 200, the quiz has one invite
\* and its share_token is the token of that invite.
C21_OnePublisher ==
    AllDone(<<"publish", 2>>) =>
        /\ Cardinality({p \in Procs : procs[p].code = 200}) = 1
        /\ Cardinality({i \in DOMAIN invites : invites[i].qcm_id = 2}) = 1
        /\ \A i \in DOMAIN invites :
              invites[i].qcm_id = 2 => qcms[2].share_token = {invites[i].token}

\* C22 (as claimed): when the simultaneous finish requests on attempt 1,
\* which was in progress, have all answered, one of them got 200 and every
\* other one 400.
C22_OneFinisher ==
    AllDone(<<"finish", 1>>) =>
        /\ Cardinality({p \in Procs : procs[p].code = 200}) = 1
        /\ Cardinality({p \in Procs : procs[p].code = 400}) = NumProcs - 1

\* C23 (as claimed): when the simultaneous save_answer requests for
\* question 1 in attempt 1 have all answered 200, the table holds one
\* answer for that attempt and question.
C23_OneRow ==
    (\A p \in Procs :
        /\ procs[p].pc = "done" /\ procs[p].code = 200
        /\ Len(procs[p].arg) = 4
        /\ procs[p].arg[1] = "answer" /\ procs[p].arg[2] = 1 /\ procs[p].arg[3] = 1)
      => CountIn(answers, 1, 1) = 1

\* C27 (as claimed): the score stored for a finished attempt is the score
\* computed from the answers that the table holds for the attempt.
C27_ScoreOfRecord ==
    \A a \in DOMAIN attempts :
        attempts[a].finished_at # {} =>
            attempts[a].score =
                {Score(CorrectCount(a), TotalQuestions(attempts[a].qcm_id))}

\* the number of attempts of the table ats created through invite i
AttemptsThrough(ats, i) == Cardinality({a \in DOMAIN ats : ats[a].invite_id = i})

\* the used_count of the capped invite inv, which is invite i, is at most
\* its max_uses and is the number of attempts of ats created through it
CountsUses(inv, ats, i) ==
    inv.max_uses > 0 =>
        /\ inv.used_count <= inv.max_uses
        /\ inv.used_count = AttemptsThrough(ats, i)

\* C25: with requests served one at a time, before and after every step
\* each invite with max_uses > 0 has used_count <= max_uses and used_count
\* equal to the number of attempts created through it, and no step lowers
\* the used_count of an invite.
C25_UsedCount ==
    [][ /\ \A i \in DOMAIN invites : CountsUses(invites[i], attempts, i)
        /\ \A i \in DOMAIN invites' : CountsUses(invites'[i], attempts', i)
        /\ \A i \in DOMAIN invites :
              /\ i \in DOMAIN invites'
              /\ invites'[i].used_count >= invites[i].used_count
      ]_vars

\* C25 witness: the invite capped at 2 was used by two started attempts,
\* the second of which was just created
C25_Witness ==
    /\ resp.op = "start" /\ resp.code = 201
    /\ invites[1].max_uses = 2 /\ invites[1].used_count = 2
    /\ AttemptsThrough(attempts, 1) = 2

\* the quizzes qs, the invites invs and the attempts ats agree: a draft has
\* no share_token and no invite, a published quiz has one invite and the
\* token of that invite as its share_token, an attempt is on a published quiz
QuizShape(qs, invs, ats) ==
    /\ \A q \in DOMAIN qs :
          LET mine == {i \in DOMAIN invs : invs[i].qcm_id = q}
          IN  /\ qs[q].status \in {"draft", "published"}
              /\ qs[q].status = "draft" => (qs[q].share_token = {} /\ mine = {})
              /\ qs[q].status = "published" =>
                    /\ Cardinality(mine) = 1
                    /\ \A i \in mine : qs[q].share_token = {invs[i].token}
    /\ \A a \in DOMAIN ats :
          ats[a].qcm_id \in DOMAIN qs /\ qs[ats[a].qcm_id].status = "published"

\* C26 (as claimed): before and after every step a draft has no
\* share_token and no invite, a published quiz has as share_token the token
\* of its one invite and every attempt is on a published quiz; no step
\* removes a quiz or takes a published quiz back to draft.
C26_QuizLifecycle ==
    [][ /\ QuizShape(qcms, invites, attempts)
        /\ QuizShape(qcms', invites', attempts')
        /\ \A q \in DOMAIN qcms :
              /\ q \in DOMAIN qcms'
              /\ qcms[q].status = "published" => qcms'[q].status = "published"
      ]_vars

\* C24: the score of every finished attempt is an integer from 0 to 100,
\* whatever starts, saves, regenerations and finishes came before.
C24_ScoreRange ==
    \A a \in DOMAIN attempts :
        attempts[a].finished_at # {} =>
            \E score \in 0..100 : attempts[a].score = {score}

\* C24 witness: an attempt was finished with score 50 on a quiz whose
\* question 1 was regenerated with 4 options
C24_Witness ==
    /\ resp.op = "finish" /\ resp.code = 200
    /\ attempts[1].score = {50}
    /\ Cardinality(OptionsOfQuestion(options, 1)) = 4

\* C28 (as claimed): every stored answer refers to an option that exists
\* and is an option of the answer's question, the question is one of the
\* quiz of the answer's attempt, and the answer's correct flag is the
\* is_correct of that option.
C28_AnswersRefer ==
    \A r \in BagToSet(answers) :
        /\ r.option_id \in DOMAIN options
        /\ options[r.option_id].question_id = r.question_id
        /\ r.question_id \in DOMAIN questions
        /\ r.attempt_id \in DOMAIN attempts
        /\ questions[r.question_id].qcm_id = attempts[r.attempt_id].qcm_id
        /\ r.correct = options[r.option_id].is_correct

====
